---------------------------- MODULE Spec2Model ----------------------------
(***************************************************************************)
(* Model of app.py: the propositional-formula evaluator built on textual   *)
(* substitution and the host language's expression evaluator, the          *)
(* assignment enumerator, the truth-table generator and the equivalence    *)
(* check.                                                                  *)
(*                                                                         *)
(* A formula is a sequence of characters.  The connective characters are   *)
(* written with ASCII names:                                               *)
(*     "NEG" = U+00AC (not)      "AND" = U+2227      "OR"  = U+2228        *)
(*     "IMP" = U+2192 (arrow)    "IFF" = U+2194                            *)
(* "1" stands for a digit and "x" for a letter that is no variable.        *)
(* Input formulas contain no whitespace.                                   *)
(***************************************************************************)
EXTENDS Integers, Sequences, FiniteSets

(***************************************************************************)
(* Bounds of the model.                                                    *)
(***************************************************************************)
\* every character string up to this length is an input of the generator
MaxLen == 4
\* every pair of character strings of at most this length together is an
\* input of the equivalence check
MaxEqLen == 3
\* every precedence-free formula up to this length is an input of the generator
MaxSimpleLen == 7

(***************************************************************************)
(* Characters.                                                             *)
(***************************************************************************)
VarChars == {"p", "q", "r", "s"}
ConnChars == {"NEG", "AND", "OR", "IMP", "IFF"}
BinChars == {"AND", "OR", "IMP", "IFF"}
Chars == VarChars \cup ConnChars \cup {"(", ")", "1", "x"}

\* the order of sorted() on the four variable letters
VarOrder == <<"p", "q", "r", "s">>

RECURSIVE Pow2(_)
Pow2(n) == IF n = 0 THEN 1 ELSE 2 * Pow2(n - 1)

(***************************************************************************)
(* extract_variables: the variable letters occurring in the text,          *)
(* deduplicated and sorted.                                                *)
(***************************************************************************)
CharsOf(formula) == {formula[i] : i \in 1..Len(formula)}

RECURSIVE SortedFrom(_, _)
SortedFrom(S, k) ==
    IF k > Len(VarOrder) THEN <<>>
    ELSE IF VarOrder[k] \in S THEN <<VarOrder[k]>> \o SortedFrom(S, k + 1)
    ELSE SortedFrom(S, k + 1)

Sorted(S) == SortedFrom(S, 1)

extract_variables(formula) == Sorted(CharsOf(formula) \cap VarChars)

(***************************************************************************)
(* generate_truth_combinations: row i (0-indexed) gives variable j         *)
(* (0-indexed) the bit (i >> (n-1-j)) & 1.  Sequences are 1-indexed, so    *)
(* element i+1 of the result is row i.                                     *)
(***************************************************************************)
\* a mutation of Bit: the first variable takes the least significant bit
Bit_LowFirst(i, n, j) == (i \div Pow2(j)) % 2

Bit(i, n, j) == (i \div Pow2(n - 1 - j)) % 2

Combo(variables_, i) ==
    LET n == Len(variables_)
    IN  [v \in {variables_[j] : j \in 1..n} |->
            LET j == CHOOSE k \in 1..n : variables_[k] = v
            IN  IF Bit(i, n, j - 1) = 1 THEN "T" ELSE "F"]

\* a mutation of generate_truth_combinations: the all-T row comes first
generate_truth_combinations_Descending(variables_) ==
    [i \in 1..Pow2(Len(variables_)) |->
        Combo(variables_, Pow2(Len(variables_)) - i)]

generate_truth_combinations(variables_) ==
    [i \in 1..Pow2(Len(variables_)) |-> Combo(variables_, i - 1)]

(***************************************************************************)
(* evaluate_formula, step 1: re.sub(r'\bV\b', 'True'|'False') for each     *)
(* variable V of the assignment.  A letter is replaced only where both     *)
(* neighbours are non-word characters.  The text is held as a sequence of  *)
(* pieces; "True" and "False" are pieces made of word characters.          *)
(***************************************************************************)
WordPieces == VarChars \cup {"1", "x", "True", "False", "not", "and", "or"}

Isolated(temp, i) ==
    /\ (i = 1 \/ temp[i - 1] \notin WordPieces)
    /\ (i = Len(temp) \/ temp[i + 1] \notin WordPieces)

SubOne(temp, var, val) ==
    [i \in 1..Len(temp) |->
        IF temp[i] = var /\ Isolated(temp, i)
        THEN (IF val = "T" THEN "True" ELSE "False")
        ELSE temp[i]]

RECURSIVE SubFrom(_, _, _)
SubFrom(temp, truth_values, k) ==
    IF k > Len(VarOrder) THEN temp
    ELSE IF VarOrder[k] \in DOMAIN truth_values
         THEN SubFrom(SubOne(temp, VarOrder[k], truth_values[VarOrder[k]]),
                      truth_values, k + 1)
         ELSE SubFrom(temp, truth_values, k + 1)

SubstituteVariables(formula, truth_values) == SubFrom(formula, truth_values, 1)

(***************************************************************************)
(* evaluate_formula, step 2: the five str.replace calls.  The negation     *)
(* sign becomes 'not ' (no leading blank); the others are padded with a    *)
(* blank on both sides.                                                    *)
(***************************************************************************)
ReplaceOne(c) ==
    CASE c = "NEG" -> <<"not", " ">>
      [] c = "AND" -> <<" ", "and", " ">>
      [] c = "OR"  -> <<" ", "or", " ">>
      [] c = "IMP" -> <<" ", "<=", " ">>
      [] c = "IFF" -> <<" ", "==", " ">>
      [] OTHER     -> <<c>>

RECURSIVE ReplaceFrom(_, _)
ReplaceFrom(temp, i) ==
    IF i > Len(temp) THEN <<>> ELSE ReplaceOne(temp[i]) \o ReplaceFrom(temp, i + 1)

ReplaceConnectives(temp) == ReplaceFrom(temp, 1)

(***************************************************************************)
(* eval(temp), lexical analysis.  A maximal run of word pieces is one      *)
(* word:                                                                   *)
(*   - a single keyword or constant is itself;                             *)
(*   - a run of digits is a number;                                        *)
(*   - a run that starts with a digit and holds anything else is no        *)
(*     token sequence that parses ("bad");                                 *)
(*   - any other run is an identifier, and none that these characters can  *)
(*     spell is defined, so reading it raises NameError.                   *)
(* Blanks separate tokens and are dropped.                                 *)
(***************************************************************************)
Tok(k, n) == [k |-> k, n |-> n]

RECURSIVE RunEnd(_, _)
RunEnd(temp, i) ==
    IF i + 1 <= Len(temp) /\ temp[i + 1] \in WordPieces THEN RunEnd(temp, i + 1) ELSE i

RECURSIVE DigitsValue(_, _, _)
DigitsValue(temp, i, e) ==
    IF i > e THEN 0 ELSE DigitsValue(temp, i, e - 1) * 10 + 1

WordToken(temp, i, e) ==
    IF i = e /\ temp[i] \in {"True", "False", "not", "and", "or"} THEN Tok(temp[i], 0)
    ELSE IF \A j \in i..e : temp[j] = "1" THEN Tok("num", DigitsValue(temp, i, e))
    ELSE IF temp[i] = "1" THEN Tok("bad", 0)
    ELSE Tok("name", 0)

RECURSIVE LexFrom(_, _)
LexFrom(temp, i) ==
    IF i > Len(temp) THEN <<>>
    ELSE IF temp[i] = " " THEN LexFrom(temp, i + 1)
    ELSE IF temp[i] \in WordPieces
         THEN LET e == RunEnd(temp, i)
              IN  <<WordToken(temp, i, e)>> \o LexFrom(temp, e + 1)
    ELSE <<Tok(temp[i], 0)>> \o LexFrom(temp, i + 1)

Lex(temp) == LexFrom(temp, 1)

(***************************************************************************)
(* eval(temp), values.  "exc" is a raised run-time exception (NameError,   *)
(* TypeError).                                                             *)
(***************************************************************************)
Val(k, n) == [k |-> k, n |-> n]
PyTrue == Val("bool", 1)
PyFalse == Val("bool", 0)
PyTuple == Val("tuple", 0)
PyExc == Val("exc", 0)
PyBool(b) == IF b THEN PyTrue ELSE PyFalse

\* truth value testing: False, 0 and the empty tuple are false
Truthy(v) == v.k \in {"bool", "int"} /\ v.n # 0

\* a mutation of PyLe: the comparison is taken the other way round
PyLe_Reversed(a, b) ==
    IF a.k = "tuple" /\ b.k = "tuple" THEN PyTrue
    ELSE IF a.k = "tuple" \/ b.k = "tuple" THEN PyExc
    ELSE PyBool(b.n <= a.n)

\* a <= b: numbers (bool is a number) compare by value, () <= () holds,
\* a tuple against a number raises TypeError
PyLe(a, b) ==
    IF a.k = "tuple" /\ b.k = "tuple" THEN PyTrue
    ELSE IF a.k = "tuple" \/ b.k = "tuple" THEN PyExc
    ELSE PyBool(a.n <= b.n)

\* a == b: never raises; a tuple equals only a tuple
PyEq(a, b) ==
    IF a.k = "tuple" \/ b.k = "tuple" THEN PyBool(a.k = b.k)
    ELSE PyBool(a.n = b.n)

PyCompare(op, a, b) == IF op = "<=" THEN PyLe(a, b) ELSE PyEq(a, b)

PyNot(a) == IF a.k = "exc" THEN PyExc ELSE PyBool(~Truthy(a))

\* x and y: x if x is false, else y (y is not evaluated when x is false)
PyAnd(a, b) == IF a.k = "exc" THEN PyExc ELSE IF Truthy(a) THEN b ELSE a

\* x or y: x if x is true, else y (y is not evaluated when x is true)
PyOr(a, b) == IF a.k = "exc" THEN PyExc ELSE IF Truthy(a) THEN a ELSE b

(***************************************************************************)
(* eval(temp), the expression grammar of the host language restricted to   *)
(* the tokens that can occur:                                              *)
(*   disjunction: conjunction ('or' conjunction)*                          *)
(*   conjunction: inversion ('and' inversion)*                             *)
(*   inversion:   'not' inversion | comparison                             *)
(*   comparison:  primary (('<=' | '==') primary)*      (chained)          *)
(*   primary:     atom ('(' [disjunction] ')')*         (calls)            *)
(*   atom:        True | False | NUMBER | NAME | '(' ')' | '(' disjunction ')' *)
(* Each parser returns [ok, pos, val]: whether the text parses from the    *)
(* given position, the position after what was read, and the value (or     *)
(* "exc").  A syntax error is found before anything is evaluated, so it    *)
(* wins over every value; a run-time exception is subject to the           *)
(* short-circuit rules of and / or / chained comparison.                   *)
(***************************************************************************)
Ok(pos, val) == [ok |-> TRUE, pos |-> pos, val |-> val]
Syn == [ok |-> FALSE, pos |-> 0, val |-> PyExc]

Peek(tok, i) == IF i <= Len(tok) THEN tok[i].k ELSE "EOF"

\* One recursive operator holds every grammar rule; x is the rule's second
\* argument: for "trailers", "conjrest" and "disjrest" the result read so
\* far, for "comprest" the state of the comparison chain
\*   prev: the last operand; out: the value of the chain so far;
\*   done: the chain has raised or met a false comparison, and the rest is
\*         only parsed.
RECURSIVE Py(_, _, _, _)
Py(rule, tok, i, x) ==
    CASE rule = "atom" ->
            LET k == Peek(tok, i)
            IN  CASE k = "True"  -> Ok(i + 1, PyTrue)
                  [] k = "False" -> Ok(i + 1, PyFalse)
                  [] k = "num"   -> Ok(i + 1, Val("int", tok[i].n))
                  [] k = "name"  -> Ok(i + 1, PyExc)
                  [] k = "("     ->
                        IF Peek(tok, i + 1) = ")" THEN Ok(i + 2, PyTuple)
                        ELSE LET e == Py("disjunction", tok, i + 1, Syn)
                             IN  IF e.ok /\ Peek(tok, e.pos) = ")"
                                 THEN Ok(e.pos + 1, e.val) ELSE Syn
                  [] OTHER       -> Syn
      [] rule = "trailers" ->
            \* a call: no value of this language subset is callable, so it raises
            IF ~x.ok \/ Peek(tok, x.pos) # "(" THEN x
            ELSE IF Peek(tok, x.pos + 1) = ")"
                 THEN Py("trailers", tok, i, Ok(x.pos + 2, PyExc))
            ELSE LET a == Py("disjunction", tok, x.pos + 1, Syn)
                 IN  IF a.ok /\ Peek(tok, a.pos) = ")"
                     THEN Py("trailers", tok, i, Ok(a.pos + 1, PyExc)) ELSE Syn
      [] rule = "primary" ->
            Py("trailers", tok, i, Py("atom", tok, i, Syn))
      [] rule = "comprest" ->
            IF Peek(tok, i) \notin {"<=", "=="} THEN Ok(i, x.out)
            ELSE LET right == Py("primary", tok, i + 1, Syn)
                     c == PyCompare(Peek(tok, i), x.prev, right.val)
                 IN  IF ~right.ok THEN Syn
                     ELSE IF x.done THEN Py("comprest", tok, right.pos, x)
                     ELSE IF right.val.k = "exc" \/ c.k = "exc"
                          THEN Py("comprest", tok, right.pos,
                                  [prev |-> x.prev, out |-> PyExc, done |-> TRUE])
                     ELSE Py("comprest", tok, right.pos,
                             [prev |-> right.val, out |-> c, done |-> ~Truthy(c)])
      [] rule = "comparison" ->
            LET left == Py("primary", tok, i, Syn)
            IN  IF ~left.ok THEN Syn
                ELSE Py("comprest", tok, left.pos,
                        [prev |-> left.val, out |-> left.val,
                         done |-> left.val.k = "exc"])
      [] rule = "inversion" ->
            IF Peek(tok, i) = "not"
            THEN LET r == Py("inversion", tok, i + 1, Syn)
                 IN  IF r.ok THEN Ok(r.pos, PyNot(r.val)) ELSE Syn
            ELSE Py("comparison", tok, i, Syn)
      [] rule = "conjrest" ->
            IF ~x.ok \/ Peek(tok, x.pos) # "and" THEN x
            ELSE LET right == Py("inversion", tok, x.pos + 1, Syn)
                 IN  IF right.ok
                     THEN Py("conjrest", tok, i, Ok(right.pos, PyAnd(x.val, right.val)))
                     ELSE Syn
      [] rule = "conjunction" ->
            Py("conjrest", tok, i, Py("inversion", tok, i, Syn))
      [] rule = "disjrest" ->
            IF ~x.ok \/ Peek(tok, x.pos) # "or" THEN x
            ELSE LET right == Py("conjunction", tok, x.pos + 1, Syn)
                 IN  IF right.ok
                     THEN Py("disjrest", tok, i, Ok(right.pos, PyOr(x.val, right.val)))
                     ELSE Syn
      [] rule = "disjunction" ->
            Py("disjrest", tok, i, Py("conjunction", tok, i, Syn))

PyDisjunction(tok, i) == Py("disjunction", tok, i, Syn)

\* eval: the whole text must be one expression; SyntaxError is "exc" too
PyEval(temp) ==
    LET tok == Lex(temp)
        r == PyDisjunction(tok, 1)
    IN  IF r.ok /\ r.pos = Len(tok) + 1 THEN r.val ELSE PyExc

(***************************************************************************)
(* evaluate_formula: "T" or "F", or "ValueError" when eval raised.         *)
(***************************************************************************)
evaluate_formula(formula, truth_values) ==
    LET temp == ReplaceConnectives(SubstituteVariables(formula, truth_values))
        result == PyEval(temp)
    IN  IF result.k = "exc" THEN "ValueError"
        ELSE IF Truthy(result) THEN "T" ELSE "F"

(***************************************************************************)
(* State: which handler ran, its text inputs, and what the handler's       *)
(* locals hold and what it displayed when it returned.  A local that was   *)
(* never assigned is <<>> (a list) or "" (a string).                       *)
(***************************************************************************)
VARIABLES
    op,             \* "idle", "truth_table_generator" or "formula_equivalence"
    formula,        \* text input of the generator
    formula1,       \* first text input of the equivalence check
    formula2,       \* second text input of the equivalence check
    variables,      \* variables (generator) / all_vars (equivalence check)
    combinations,   \* the enumerated assignments
    results,        \* generator: one result per row
    results1,       \* equivalence check: results of formula1
    results2,       \* equivalence check: results of formula2
    table_data,     \* the rows handed to the data frame that is displayed
    formula_type,   \* "tautology", "contradiction" or "contingent"
    differences,    \* (idx, combo, res1, res2) of the rows that differ
    is_equivalent,  \* "True" or "False"
    warnings,       \* the displayed difference lines, numbered idx + 1
    error,          \* "no_variables" or "format_error" (st.error)
    evals           \* number of evaluate_formula calls the handler made

vars == <<op, formula, formula1, formula2, variables, combinations, results,
          results1, results2, table_data, formula_type, differences,
          is_equivalent, warnings, error, evals>>

\* what every local holds before a handler assigns it
Blank ==
    [variables |-> <<>>, combinations |-> <<>>, results |-> <<>>,
     results1 |-> <<>>, results2 |-> <<>>, table_data |-> <<>>,
     formula_type |-> "", differences |-> <<>>, is_equivalent |-> "",
     warnings |-> <<>>, error |-> "", evals |-> 0]

(***************************************************************************)
(* A list comprehension [evaluate_formula(f, combo) for combo in combos]:  *)
(* the list, or the (0-indexed) row at which evaluate_formula raised.      *)
(***************************************************************************)
EvalAll(f, combos) == [i \in 1..Len(combos) |-> evaluate_formula(f, combos[i])]

Raised(res) == \E i \in 1..Len(res) : res[i] = "ValueError"

\* the calls made: all rows, or up to and including the row that raised
Calls(res) ==
    IF Raised(res)
    THEN CHOOSE i \in 1..Len(res) :
            res[i] = "ValueError" /\ \A j \in 1..(i - 1) : res[j] # "ValueError"
    ELSE Len(res)

\* the column key of a variable
Key(v) == <<v>>
ConsistentKey == <<"consistent">>

(***************************************************************************)
(* truth_table_generator, for a text input f.                              *)
(***************************************************************************)
\* row = combo.copy(); row[formula] = res
TableRow(f, combo, res) ==
    [k \in {Key(v) : v \in DOMAIN combo} \cup {f} |->
        IF k = f THEN res ELSE combo[k[1]]]

\* a mutation of Classify: one false row is taken for a contradiction
Classify_AnyFalse(res) ==
    IF \A i \in 1..Len(res) : res[i] = "T" THEN "tautology"
    ELSE IF \E i \in 1..Len(res) : res[i] = "F" THEN "contradiction"
    ELSE "contingent"

Classify(res) ==
    IF \A i \in 1..Len(res) : res[i] = "T" THEN "tautology"
    ELSE IF \A i \in 1..Len(res) : res[i] = "F" THEN "contradiction"
    ELSE "contingent"

truth_table_generator(f) ==
    LET vs == extract_variables(f)
        combos == generate_truth_combinations(vs)
        res == EvalAll(f, combos)
    IN  IF f = <<>> THEN Blank
        ELSE IF vs = <<>> THEN [Blank EXCEPT !.error = "no_variables"]
        ELSE IF Raised(res)
             THEN [Blank EXCEPT !.variables = vs, !.combinations = combos,
                                !.evals = Calls(res), !.error = "format_error"]
        ELSE [Blank EXCEPT
                !.variables = vs, !.combinations = combos, !.results = res,
                !.evals = Calls(res),
                !.table_data = [i \in 1..Len(combos) |-> TableRow(f, combos[i], res[i])],
                !.formula_type = Classify(res)]

(***************************************************************************)
(* formula_equivalence, for text inputs f1 and f2.                         *)
(***************************************************************************)
\* row = combo.copy(); row[formula1] = res1; row[formula2] = res2; row[mark] = ...
CompareRow(f1, f2, combo, res1, res2) ==
    [k \in {Key(v) : v \in DOMAIN combo} \cup {f1, f2, ConsistentKey} |->
        IF k = ConsistentKey THEN (IF res1 = res2 THEN "same" ELSE "differ")
        ELSE IF k = f2 THEN res2
        ELSE IF k = f1 THEN res1
        ELSE combo[k[1]]]

RECURSIVE DiffFrom(_, _, _, _)
DiffFrom(combos, res1, res2, i) ==
    IF i > Len(combos) THEN <<>>
    ELSE IF res1[i] # res2[i]
         THEN <<[idx |-> i - 1, combo |-> combos[i], res1 |-> res1[i], res2 |-> res2[i]]>>
              \o DiffFrom(combos, res1, res2, i + 1)
    ELSE DiffFrom(combos, res1, res2, i + 1)

Differences(combos, res1, res2) == DiffFrom(combos, res1, res2, 1)

\* a mutation of WarningLine: the row is numbered from 0
WarningLine_ZeroBased(d) ==
    [row |-> d.idx, combo |-> d.combo, res1 |-> d.res1, res2 |-> d.res2]

\* the line shown for one difference
WarningLine(d) == [row |-> d.idx + 1, combo |-> d.combo, res1 |-> d.res1, res2 |-> d.res2]

formula_equivalence(f1, f2) ==
    LET all_vars == Sorted((CharsOf(f1) \cap VarChars) \cup (CharsOf(f2) \cap VarChars))
        combos == generate_truth_combinations(all_vars)
        res1 == EvalAll(f1, combos)
        res2 == EvalAll(f2, combos)
        diffs == Differences(combos, res1, res2)
    IN  IF f1 = <<>> \/ f2 = <<>> THEN Blank
        ELSE IF Raised(res1)
             THEN [Blank EXCEPT !.variables = all_vars, !.combinations = combos,
                                !.evals = Calls(res1), !.error = "format_error"]
        ELSE IF Raised(res2)
             THEN [Blank EXCEPT !.variables = all_vars, !.combinations = combos,
                                !.results1 = res1,
                                !.evals = Len(res1) + Calls(res2),
                                !.error = "format_error"]
        ELSE [Blank EXCEPT
                !.variables = all_vars, !.combinations = combos,
                !.results1 = res1, !.results2 = res2,
                !.evals = Len(res1) + Len(res2),
                !.table_data = [i \in 1..Len(combos) |->
                                   CompareRow(f1, f2, combos[i], res1[i], res2[i])],
                !.differences = diffs,
                !.is_equivalent = IF Len(diffs) = 0 THEN "True" ELSE "False",
                !.warnings = [i \in 1..Len(diffs) |-> WarningLine(diffs[i])]]

(***************************************************************************)
(* Inputs.                                                                 *)
(***************************************************************************)
AllStrings(n) == UNION {[1..k -> Chars] : k \in 0..n}

\* Formulas in which every operand of a connective is a single variable or
\* a parenthesised group, by length.
RECURSIVE Simple(_, _)
Simple(kind, n) ==
    IF kind = "atom"
    THEN (IF n = 1 THEN {<<v>> : v \in VarChars}
          ELSE IF n >= 3 THEN {<<"(">> \o f \o <<")">> : f \in Simple("formula", n - 2)}
          ELSE {})
    ELSE IF n <= 0 THEN {}
    ELSE Simple("atom", n)
         \cup {<<"NEG">> \o a : a \in Simple("atom", n - 1)}
         \cup UNION {{a \o <<c>> \o b : a \in Simple("atom", i),
                                         b \in Simple("atom", n - 1 - i),
                                         c \in BinChars} : i \in 1..(n - 2)}

SimpleF(n) == Simple("formula", n)

SimpleFormulas == UNION {SimpleF(n) : n \in 1..MaxSimpleLen}

\* The formulas the documentation and the interface's placeholders name.
F_NegImp == <<"NEG", "p", "IMP", "q">>
F_NegIff == <<"NEG", "p", "IFF", "q">>
F_ImpNeg == <<"p", "IMP", "NEG", "q">>
F_OrAnd == <<"p", "OR", "q", "AND", "r">>
F_AndImp == <<"p", "AND", "q", "IMP", "r">>
F_ImpOr == <<"p", "IMP", "q", "OR", "r">>
F_AndIff == <<"p", "AND", "q", "IFF", "r">>
F_ImpImp == <<"p", "IMP", "q", "IMP", "r">>
F_Iff == <<"p", "IFF", "q">>
F_And == <<"p", "AND", "q">>
F_Imp == <<"p", "IMP", "q">>
F_NegOr == <<"NEG", "p", "OR", "q">>
F_ExMiddle == <<"p", "OR", "NEG", "p">>
F_Contra == <<"p", "AND", "NEG", "p">>
F_GroupImp == <<"(", "p", "AND", "q", ")", "IMP", "r">>
F_Clause == <<"NEG", "p", "OR", "NEG", "q", "OR", "r">>
F_Unclosed == <<"(", "p", "AND", "q", "IMP", "r">>
F_Four == <<"(", "p", "AND", "q", ")", "IMP", "(", "r", "OR", "s", ")">>
F_FourFlat == <<"p", "AND", "q", "OR", "r", "AND", "s">>
F_OrDigit == <<"p", "OR", "1">>
F_OrTuple == <<"p", "OR", "(", ")">>
F_MaskedName == <<"p", "OR", "NEG", "p", "OR", "x">>
F_Name == <<"x", "x", "x">>

NamedFormulas ==
    {F_NegImp, F_NegIff, F_ImpNeg, F_OrAnd, F_AndImp, F_ImpOr, F_AndIff, F_ImpImp,
     F_Iff, F_And, F_Imp, F_NegOr, F_ExMiddle, F_Contra, F_GroupImp, F_Clause,
     F_Unclosed, F_Four, F_FourFlat, F_OrDigit, F_OrTuple, F_MaskedName, F_Name}

TableInputs == AllStrings(MaxLen) \cup SimpleFormulas \cup NamedFormulas

\* The equivalence check is run on every pair of strings whose lengths add
\* up to at most MaxEqLen, and on every pair of named formulas.
EquivFirst == AllStrings(MaxEqLen) \cup NamedFormulas

EquivSecond(f1) ==
    (IF Len(f1) <= MaxEqLen THEN AllStrings(MaxEqLen - Len(f1)) ELSE {})
        \cup (IF f1 \in NamedFormulas THEN NamedFormulas ELSE {})

(***************************************************************************)
(* The state machine: one run of one handler on the text the user typed.   *)
(***************************************************************************)
Init ==
    /\ op = "idle"
    /\ formula = <<>>
    /\ formula1 = <<>>
    /\ formula2 = <<>>
    /\ variables = Blank.variables
    /\ combinations = Blank.combinations
    /\ results = Blank.results
    /\ results1 = Blank.results1
    /\ results2 = Blank.results2
    /\ table_data = Blank.table_data
    /\ formula_type = Blank.formula_type
    /\ differences = Blank.differences
    /\ is_equivalent = Blank.is_equivalent
    /\ warnings = Blank.warnings
    /\ error = Blank.error
    /\ evals = Blank.evals

Show(out) ==
    /\ variables' = out.variables
    /\ combinations' = out.combinations
    /\ results' = out.results
    /\ results1' = out.results1
    /\ results2' = out.results2
    /\ table_data' = out.table_data
    /\ formula_type' = out.formula_type
    /\ differences' = out.differences
    /\ is_equivalent' = out.is_equivalent
    /\ warnings' = out.warnings
    /\ error' = out.error
    /\ evals' = out.evals

TruthTableGenerator ==
    /\ op = "idle"
    /\ \E f \in TableInputs :
        /\ formula' = f
        /\ Show(truth_table_generator(f))
    /\ op' = "truth_table_generator"
    /\ UNCHANGED <<formula1, formula2>>

FormulaEquivalence ==
    /\ op = "idle"
    /\ \E f1 \in EquivFirst :
        \E f2 \in EquivSecond(f1) :
            /\ formula1' = f1
            /\ formula2' = f2
            /\ Show(formula_equivalence(f1, f2))
    /\ op' = "formula_equivalence"
    /\ UNCHANGED formula

Next == TruthTableGenerator \/ FormulaEquivalence

Spec == Init /\ [][Next]_vars

(***************************************************************************)
(* Vocabulary of the properties.                                           *)
(***************************************************************************)
TableRan == op = "truth_table_generator"
EquivRan == op = "formula_equivalence"
TableBuilt == table_data # <<>>

TF(b) == IF b THEN "T" ELSE "F"

\* the truth value row i gives variable v
B(v, i) == combinations[i][v] = "T"

Rows == 1..Len(combinations)

HasVariable(f) == CharsOf(f) \cap VarChars # {}
HasForeign(f) == CharsOf(f) \cap {"1", "x"} # {}

\* Nothing of a table, a classification or a verdict was produced.
NothingProduced ==
    /\ table_data = <<>>
    /\ results = <<>>
    /\ formula_type = ""
    /\ is_equivalent = ""
    /\ differences = <<>>
    /\ warnings = <<>>

(***************************************************************************)
(* The meaning of a formula whose connectives have only single variables   *)
(* and parenthesised groups as operands, read off its structure.           *)
(***************************************************************************)
\* the position of the parenthesis that closes the group open at depth d
RECURSIVE MatchFrom(_, _, _)
MatchFrom(f, i, d) ==
    IF f[i] = "(" THEN MatchFrom(f, i + 1, d + 1)
    ELSE IF f[i] = ")" THEN (IF d = 1 THEN i ELSE MatchFrom(f, i + 1, d - 1))
    ELSE MatchFrom(f, i + 1, d)

\* the end of the operand that starts the formula
AtomEnd(f) == IF f[1] = "(" THEN MatchFrom(f, 2, 1) ELSE 1

RECURSIVE SimpleValue(_, _)
SimpleValue(f, a) ==
    IF Len(f) = 1 THEN a[f[1]] = "T"
    ELSE IF f[1] = "NEG" THEN ~SimpleValue(Tail(f), a)
    ELSE LET e == AtomEnd(f)
         IN  IF e = Len(f) THEN SimpleValue(SubSeq(f, 2, Len(f) - 1), a)
             ELSE LET l == SimpleValue(SubSeq(f, 1, e), a)
                      r == SimpleValue(SubSeq(f, e + 2, Len(f)), a)
                      c == f[e + 1]
                  IN  CASE c = "AND" -> l /\ r
                        [] c = "OR"  -> l \/ r
                        [] c = "IMP" -> (~l) \/ r
                        [] c = "IFF" -> l = r

MatchesSemantics(f, res) ==
    /\ error = ""
    /\ Len(res) = Len(combinations)
    /\ \A i \in Rows : res[i] = TF(SimpleValue(f, combinations[i]))

(***************************************************************************)
(* C1.  A formula in which every operand of a connective is a single       *)
(* variable or a parenthesised group is evaluated, on every assignment,    *)
(* to "T" exactly when it is true under                                    *)
(*   not A, A and B, A or B, (not A) or B, A = B,                          *)
(* and to "F" otherwise (in the generator and in the equivalence check).   *)
(***************************************************************************)
C1_SimpleFormulaSemantics ==
    /\ (TableRan /\ formula \in SimpleFormulas) => MatchesSemantics(formula, results)
    /\ (EquivRan /\ formula1 \in SimpleFormulas /\ formula2 \in SimpleFormulas)
          => /\ MatchesSemantics(formula1, results1)
             /\ MatchesSemantics(formula2, results2)

C1_Witness ==
    /\ TableRan
    /\ formula = F_GroupImp
    /\ formula \in SimpleFormulas
    /\ results = <<"T", "T", "T", "T", "T", "T", "F", "T">>

(***************************************************************************)
(* C2.  Negation binds tighter than every binary connective: NEG p IMP q   *)
(* has the value of (NEG p) IMP q, NEG p IFF q the value of (NEG p) IFF q  *)
(* and p IMP NEG q the value of p IMP (NEG q); none of them is rejected.   *)
(***************************************************************************)
C2_NegationBindsTightest ==
    TableRan =>
        /\ formula = F_NegImp =>
              /\ error = ""
              /\ \A i \in Rows : results[i] = TF((~B("p", i)) => B("q", i))
        /\ formula = F_NegIff =>
              /\ error = ""
              /\ \A i \in Rows : results[i] = TF((~B("p", i)) <=> B("q", i))
        /\ formula = F_ImpNeg =>
              /\ error = ""
              /\ \A i \in Rows : results[i] = TF(B("p", i) => ~B("q", i))

(***************************************************************************)
(* C3.  AND binds tighter than OR, and IMP and IFF bind loosest:           *)
(* p OR q AND r = p OR (q AND r), p AND q IMP r = (p AND q) IMP r,         *)
(* p IMP q OR r = p IMP (q OR r), p AND q IFF r = (p AND q) IFF r.         *)
(***************************************************************************)
C3_BinaryPrecedence ==
    TableRan =>
        /\ formula = F_OrAnd =>
              /\ error = ""
              /\ \A i \in Rows :
                    results[i] = TF(B("p", i) \/ (B("q", i) /\ B("r", i)))
        /\ formula = F_AndImp =>
              /\ error = ""
              /\ \A i \in Rows :
                    results[i] = TF((B("p", i) /\ B("q", i)) => B("r", i))
        /\ formula = F_ImpOr =>
              /\ error = ""
              /\ \A i \in Rows :
                    results[i] = TF(B("p", i) => (B("q", i) \/ B("r", i)))
        /\ formula = F_AndIff =>
              /\ error = ""
              /\ \A i \in Rows :
                    results[i] = TF((B("p", i) /\ B("q", i)) <=> B("r", i))

(***************************************************************************)
(* C4.  A table over the sorted variable list V of length n, 1 <= n <= 4,  *)
(* built by either handler, has exactly 2^n rows; row i (0-indexed) gives  *)
(* variable j (0-indexed) the value T iff bit n-1-j of i is 1, that is,    *)
(* the row read as a binary numeral, first variable most significant, is   *)
(* i; the first row is all F and the last all T.                           *)
(***************************************************************************)
\* the row's assignment read as a binary numeral, V[1] most significant
RECURSIVE Numeral(_, _, _)
Numeral(row, V, k) ==
    IF k = 0 THEN 0
    ELSE 2 * Numeral(row, V, k - 1) + (IF row[Key(V[k])] = "T" THEN 1 ELSE 0)

\* V is the sorted list of the variables typed into the handler that ran
TypedVariables ==
    IF TableRan THEN CharsOf(formula) \cap VarChars
    ELSE (CharsOf(formula1) \cup CharsOf(formula2)) \cap VarChars

IsSortedList(V, S) ==
    /\ {V[j] : j \in 1..Len(V)} = S
    /\ \A j \in 1..(Len(V) - 1), k \in 1..Len(VarOrder), l \in 1..Len(VarOrder) :
          (VarOrder[k] = V[j] /\ VarOrder[l] = V[j + 1]) => k < l

C4_CanonicalRows ==
    (TableBuilt /\ Len(variables) >= 1) =>
        LET n == Len(variables)
        IN  /\ n \in 1..4
            /\ IsSortedList(variables, TypedVariables)
            /\ Len(table_data) = 2 ^ n
            /\ \A i \in 0..(Len(table_data) - 1) :
                  /\ Numeral(table_data[i + 1], variables, n) = i
                  /\ \A j \in 0..(n - 1) :
                        (table_data[i + 1][Key(variables[j + 1])] = "T")
                            <=> ((i \div (2 ^ (n - 1 - j))) % 2 = 1)
            /\ \A j \in 1..n :
                  /\ table_data[1][Key(variables[j])] = "F"
                  /\ table_data[Len(table_data)][Key(variables[j])] = "T"

C4_Witness ==
    /\ EquivRan
    /\ TableBuilt
    /\ variables = <<"p", "q", "r", "s">>
    /\ Len(table_data) = 16

(***************************************************************************)
(* C5.  Every tabulation that produces a table reports exactly one         *)
(* classification: tautology iff every result is T, contradiction iff      *)
(* every result is F, contingent otherwise; the table has at least two     *)
(* rows, so the result column is never empty and tautology and             *)
(* contradiction never both apply.                                         *)
(***************************************************************************)
C5_Classification ==
    (TableRan /\ TableBuilt) =>
        LET allT == \A i \in 1..Len(results) : results[i] = "T"
            allF == \A i \in 1..Len(results) : results[i] = "F"
        IN  /\ Len(results) >= 2
            /\ Len(results) = Len(table_data)
            /\ ~(allT /\ allF)
            /\ formula_type \in {"tautology", "contradiction", "contingent"}
            /\ formula_type = "tautology" <=> allT
            /\ formula_type = "contradiction" <=> allF
            /\ formula_type = "contingent" <=> (~allT /\ ~allF)

C5_Witness ==
    /\ TableRan
    /\ formula = F_Contra
    /\ results = <<"F", "F">>
    /\ formula_type = "contradiction"

(***************************************************************************)
(* C6.  When both formulas evaluate without error, the check declares      *)
(* them equivalent iff no row has differing results; the difference list   *)
(* holds exactly the differing rows in ascending order, each shown with    *)
(* its 1-based row number, its full assignment and both results.           *)
(***************************************************************************)
C6_Differences ==
    (EquivRan /\ formula1 # <<>> /\ formula2 # <<>> /\ error = "") =>
        LET differing == {i \in Rows : results1[i] # results2[i]}
        IN  /\ Len(results1) = Len(combinations)
            /\ Len(results2) = Len(combinations)
            /\ Len(table_data) = Len(combinations)
            /\ is_equivalent = (IF differing = {} THEN "True" ELSE "False")
            /\ Len(differences) = Cardinality(differing)
            /\ {differences[k].idx + 1 : k \in 1..Len(differences)} = differing
            /\ \A k \in 1..(Len(differences) - 1) :
                  differences[k].idx < differences[k + 1].idx
            /\ Len(warnings) = Len(differences)
            /\ \A k \in 1..Len(differences) :
                  LET i == differences[k].idx + 1
                  IN  /\ warnings[k].row = i
                      /\ warnings[k].combo = combinations[i]
                      /\ warnings[k].res1 = results1[i]
                      /\ warnings[k].res2 = results2[i]
                      /\ differences[k].combo = combinations[i]
                      /\ differences[k].res1 = results1[i]
                      /\ differences[k].res2 = results2[i]

C6_Witness ==
    /\ EquivRan
    /\ formula1 = F_Imp
    /\ formula2 = F_And
    /\ is_equivalent = "False"
    /\ Len(warnings) = 2
    /\ warnings[1].row = 1
    /\ warnings[2].row = 2

(***************************************************************************)
(* C7.  In both handlers, a non-empty input formula that contains none of  *)
(* p, q, r, s ends the run with the "no variables" error before any        *)
(* assignment is enumerated or evaluated, and nothing is produced.         *)
(***************************************************************************)
RejectedNoVariables ==
    /\ error = "no_variables"
    /\ combinations = <<>>
    /\ evals = 0
    /\ NothingProduced

C7_NoVariablesRejected ==
    /\ (TableRan /\ formula # <<>> /\ ~HasVariable(formula)) => RejectedNoVariables
    /\ (EquivRan /\ formula1 # <<>> /\ formula2 # <<>>
          /\ (~HasVariable(formula1) \/ ~HasVariable(formula2)))
          => RejectedNoVariables

(***************************************************************************)
(* C8.  A formula with at least one variable and at least one character    *)
(* outside the alphabet is rejected: the run fails with an error, nothing  *)
(* is produced, and the formula is evaluated to T or F on no row.          *)
(***************************************************************************)
Foreign(f) == HasVariable(f) /\ HasForeign(f)

C8_ForeignCharacterRejected ==
    /\ (TableRan /\ Foreign(formula)) => (error # "" /\ NothingProduced)
    /\ (EquivRan /\ formula1 # <<>> /\ formula2 # <<>>
          /\ (Foreign(formula1) \/ Foreign(formula2)))
          => (error # "" /\ NothingProduced /\ results2 = <<>>
              /\ (Foreign(formula1) => results1 = <<>>))

(***************************************************************************)
(* C9.  p IMP q IMP r is either evaluated with the value of                *)
(* p IMP (q IMP r) on every row, or rejected with an error.                *)
(***************************************************************************)
C9_ImplicationChain ==
    (TableRan /\ formula = F_ImpImp) =>
        \/ error # "" /\ NothingProduced
        \/ /\ error = ""
           /\ \A i \in Rows :
                 results[i] = TF(B("p", i) => (B("q", i) => B("r", i)))

(***************************************************************************)
(* C10.  Comparing p IFF q with p AND q gives a 4-row table over p, q,     *)
(* the verdict "not equivalent", and a difference at p=F, q=F with         *)
(* p IFF q = T and p AND q = F; p=T,q=F and p=F,q=T are not differences.   *)
(* The difference is reported as row RowNo.                                *)
(***************************************************************************)
IffVersusAnd(RowNo) ==
    (EquivRan /\ formula1 = F_Iff /\ formula2 = F_And) =>
        /\ variables = <<"p", "q">>
        /\ Len(table_data) = 4
        /\ is_equivalent = "False"
        /\ \E k \in 1..Len(warnings) :
              /\ warnings[k].combo = [p |-> "F", q |-> "F"]
              /\ warnings[k].row = RowNo
              /\ warnings[k].res1 = "T"
              /\ warnings[k].res2 = "F"
        /\ \A k \in 1..Len(warnings) :
              /\ warnings[k].combo # [p |-> "T", q |-> "F"]
              /\ warnings[k].combo # [p |-> "F", q |-> "T"]

\* C10 as stated: the difference at p=F, q=F is reported as row 4.
C10_ReportedAsRowFour == IffVersusAnd(4)

\* C10 as amended: the difference at p=F, q=F is reported as row 1 (the
\* all-F assignment is enumeration index 0).
C10_ReportedAsRowOne == IffVersusAnd(1)

C10_Witness ==
    /\ EquivRan
    /\ formula1 = F_Iff
    /\ formula2 = F_And
    /\ Len(warnings) = 1
    /\ warnings[1] = [row |-> 1, combo |-> [p |-> "F", q |-> "F"],
                      res1 |-> "T", res2 |-> "F"]

=============================================================================
